---- MODULE Spec2Model ----
(***************************************************************************)
(* Model of kivy/loader.py: the asynchronous image loader.                 *)
(*                                                                         *)
(* One main thread runs the public calls (image, start, stop, pause,       *)
(* resume, the two property setters) and the two Clock callbacks (_update, *)
(* run); each worker thread of a _ThreadPool runs _Worker.run, which calls *)
(* LoaderBase._load for every task.  A main-thread call is one atomic      *)
(* action (the deque operations it interleaves with are atomic in          *)
(* CPython); stop() is two, because it blocks in Queue.join().  A worker   *)
(* is cut at every read or write of shared state.                          *)
(*                                                                         *)
(* Python values: None and False are the records NoneData and FalseData    *)
(* where they are stored in the cache or travel as load results; an        *)
(* optional integer (max_upload_per_frame) is <<>> for None and <<n>> for  *)
(* the integer n.  A deque is a sequence whose left end is index 1:        *)
(* appendleft puts in front, pop takes the last element.                   *)
(***************************************************************************)
EXTENDS Integers, Sequences, FiniteSets, Bags, TLC

\* ------------------------------------------------------------------ bounds
\* image() is called at most MaxCalls times in a behaviour
MaxCalls == 2
\* start() builds at most MaxPools thread pools in a behaviour
MaxPools == 1
\* the application assigns num_workers values up to MaxWorkers
MaxWorkers == 2
\* calls of image() in the specification of the backlog
MaxBacklog == 4

\* ------------------------------------------------------------ Python values
PyNone == <<>>
PyInt(n) == <<n>>
IsNone(v) == v = <<>>
IntOf(v) == v[1]

\* filenames, as the list filename.split(':') gives
LocalFile == <<"a.png">>
SmbFile == <<"smb", "//s/c.png">>
Filenames == {LocalFile, SmbFile}

\* filename.split(':', 1)[0]
Proto(filename) == filename[1]
NetworkProtos == {"http", "https", "ftp", "smb"}

\* values a cache slot, a completion or a ProxyImage.image can hold
NoneData == [kind |-> "None", nocache |-> FALSE, source |-> <<>>]
FalseData == [kind |-> "False", nocache |-> FALSE, source |-> <<>>]
LoadingImage == [kind |-> "loading", nocache |-> FALSE, source |-> <<>>]
ErrorImage == [kind |-> "error", nocache |-> FALSE, source |-> <<>>]
LoadedImage(filename, nocache) ==
    [kind |-> "image", nocache |-> nocache, source |-> filename]

\* the arguments image() is called with: load_callback and post_callback say
\* whether a callback was passed, nocache is kwargs.get('nocache', False)
Requests ==
    { [filename |-> LocalFile, load_callback |-> FALSE, post_callback |-> FALSE, nocache |-> FALSE],
      [filename |-> LocalFile, load_callback |-> FALSE, post_callback |-> FALSE, nocache |-> TRUE],
      [filename |-> LocalFile, load_callback |-> TRUE, post_callback |-> TRUE, nocache |-> TRUE],
      [filename |-> SmbFile, load_callback |-> FALSE, post_callback |-> FALSE, nocache |-> FALSE] }
NoTask == [filename |-> <<>>, load_callback |-> FALSE, post_callback |-> FALSE, nocache |-> FALSE]

\* values the two property setters are called with
NumWorkersInputs == {PyInt(n) : n \in 1..MaxWorkers}
MaxUploadInputs == {PyNone, PyInt(0), PyInt(1), PyInt(2)}

VARIABLES
    num_workers,      \* self._num_workers
    max_upload,       \* self._max_upload_per_frame: <<>> is None
    paused,           \* self._paused
    running,          \* self._running
    start_wanted,     \* self._start_wanted
    q_load,           \* self._q_load
    q_done,           \* self._q_done
    client,           \* self._client: list of <<filename, index into proxies>>
    proxies,          \* every ProxyImage image() has returned, in call order
    cache,            \* Cache category 'kv.loader'
    armed,            \* self._trigger_update is scheduled
    run_scheduled,    \* Clock.schedule_interval(self.run, 0) is active
    pools,            \* every _ThreadPool built so far; self.pool is the last
    main,             \* the main thread: "idle", or "join" inside pool.stop()
    last_update       \* history: what _update did, if the last step was its call

vars == << num_workers, max_upload, paused, running, start_wanted, q_load, q_done,
           client, proxies, cache, armed, run_scheduled, pools, main, last_update >>

config == << num_workers, max_upload >>
handles == << client, proxies, cache >>

\* --------------------------------------------------- the load protocol
\* What the world does to one load: fault is the call that raises ("none"
\* when none does), reuse says whether another thread has opened a file on
\* the temp file's descriptor number after it was closed, smb_ok whether
\* PySMB can be imported, cb_nocache the nocache attribute of the image a
\* custom load_callback returns.
Faults == {"none", "mkstemp", "open", "read", "write", "decode", "callback", "post"}
Envs == [fault : Faults, reuse : BOOLEAN, smb_ok : BOOLEAN, cb_nocache : BOOLEAN]

\* the environments that differ for a task: the faults of the path it takes
EnvsFor(task) ==
    IF task.load_callback
    THEN [fault : {"none", "callback", "post"}, reuse : {FALSE}, smb_ok : {TRUE},
          cb_nocache : BOOLEAN]
    ELSE IF Proto(task.filename) \in NetworkProtos
    THEN [fault : Faults \ {"callback"}, reuse : BOOLEAN, smb_ok : BOOLEAN,
          cb_nocache : {FALSE}]
    ELSE [fault : {"none", "decode", "post"}, reuse : {FALSE}, smb_ok : {TRUE},
          cb_nocache : {FALSE}]

\* the temp file of a _load_urllib call: created (mkstemp returned), exists
\* (the file is on disk), osfd_open (its descriptor is open), close_calls
\* (calls of os.close on its descriptor number), foreign_closed (a close hit
\* a descriptor another thread had opened on the same number), conn_open
\* (the urllib response is open)
NoTmp == [created |-> FALSE, exists |-> FALSE, osfd_open |-> FALSE, close_calls |-> 0,
          foreign_closed |-> FALSE, conn_open |-> FALSE]

\* locals of _load_urllib at the end of the try block: osfd_var and fd_var
\* say whether _out_osfd and fd are not None, name_set whether _out_filename
\* is not '', exc whether the block ended by raising
UrlTry(filename, nocache, fault) ==
    LET l0 == [osfd_var |-> FALSE, fd_var |-> FALSE, name_set |-> FALSE, exc |-> TRUE,
               data |-> NoneData, t |-> NoTmp]
        \* tempfile.mkstemp
        l1 == [l0 EXCEPT !.osfd_var = TRUE, !.name_set = TRUE,
                         !.t = [NoTmp EXCEPT !.created = TRUE, !.exists = TRUE,
                                             !.osfd_open = TRUE]]
        \* fd = urlopen(filename)
        l2 == [l1 EXCEPT !.fd_var = TRUE, !.t.conn_open = TRUE]
        \* idata = fd.read(); fd.close(); fd = None
        l3 == [l2 EXCEPT !.fd_var = FALSE, !.t.conn_open = FALSE]
        \* write(_out_osfd, idata); close(_out_osfd); _out_osfd = None
        l4 == [l3 EXCEPT !.osfd_var = FALSE, !.t.osfd_open = FALSE, !.t.close_calls = 1]
        \* data = self._load_local(_out_filename, kwargs); tag the source
        l5 == [l4 EXCEPT !.exc = FALSE, !.data = LoadedImage(filename, nocache)]
    IN  CASE fault = "mkstemp" -> l0
          [] fault = "open" -> l1
          [] fault = "read" -> l2
          [] fault = "write" -> l3
          [] fault = "decode" -> l4
          [] OTHER -> l5

\* the except clause: close(_out_osfd) inside try/except OSError, then
\* return self.error_image.  close(None) raises TypeError, which the inner
\* except OSError does not catch.
UrlExcept(l) ==
    IF ~l.exc THEN [l |-> l, ret |-> "data", data |-> l.data, exc |-> "none"]
    ELSE IF ~l.osfd_var
         THEN [l |-> l, ret |-> "raise", data |-> NoneData, exc |-> "TypeError: close(None)"]
         ELSE [l |-> [l EXCEPT !.t.osfd_open = FALSE, !.t.close_calls = @ + 1],
               ret |-> "data", data |-> ErrorImage, exc |-> "none"]

\* the finally clause: fd.close() if fd, close(_out_osfd) if _out_osfd,
\* unlink(_out_filename) if it is set.  A close of a descriptor that is
\* already closed raises OSError (EBADF) and skips the unlink, unless the
\* number has been reused by another thread, whose descriptor it then closes.
UrlFinally(r, reuse) ==
    LET l == r.l
        a == IF l.fd_var THEN [l EXCEPT !.t.conn_open = FALSE] ELSE l
        closes == a.osfd_var
        b == IF closes THEN [a EXCEPT !.t.close_calls = @ + 1,
                                      !.t.osfd_open = FALSE,
                                      !.t.foreign_closed = ~a.t.osfd_open /\ reuse]
             ELSE a
        ebadf == closes /\ ~a.t.osfd_open /\ ~reuse
        c == IF ~ebadf /\ b.name_set THEN [b EXCEPT !.t.exists = FALSE] ELSE b
    IN  IF ebadf
        THEN [ret |-> "raise", data |-> NoneData, exc |-> "OSError: EBADF", tmp |-> c.t]
        ELSE [ret |-> r.ret, data |-> r.data, exc |-> r.exc, tmp |-> c.t]

\* LoaderBase._load_urllib
LoadUrllib(filename, nocache, env) ==
    IF Proto(filename) = "smb" /\ ~env.smb_ok
    THEN [ret |-> "data", data |-> NoneData, exc |-> "none", tmp |-> NoTmp]
    ELSE UrlFinally(UrlExcept(UrlTry(filename, nocache, env.fault)), env.reuse)

\* LoaderBase._load_local: ImageLoader.load returns the image or raises
LoadLocal(filename, nocache, env) ==
    IF env.fault = "decode"
    THEN [ret |-> "raise", data |-> NoneData, exc |-> "Exception: decode", tmp |-> NoTmp]
    ELSE [ret |-> "data", data |-> LoadedImage(filename, nocache), exc |-> "none",
          tmp |-> NoTmp]

\* the custom load_callback: returns an image or raises
LoadCallback(filename, env) ==
    IF env.fault = "callback"
    THEN [ret |-> "raise", data |-> NoneData, exc |-> "Exception: load_callback",
          tmp |-> NoTmp]
    ELSE [ret |-> "data", data |-> LoadedImage(filename, env.cb_nocache), exc |-> "none",
          tmp |-> NoTmp]

\* LoaderBase._load from the dispatch on load_callback and proto to the
\* post_callback: the data to push, or the exception that leaves _load
LoadData(task, env) ==
    LET r == IF task.load_callback THEN LoadCallback(task.filename, env)
             ELSE IF Proto(task.filename) \in NetworkProtos
                  THEN LoadUrllib(task.filename, task.nocache, env)
                  ELSE LoadLocal(task.filename, task.nocache, env)
    IN  IF r.ret = "data" /\ task.post_callback /\ env.fault = "post"
        THEN [r EXCEPT !.ret = "raise", !.data = NoneData, !.exc = "Exception: post_callback"]
        ELSE r

\* the value of last_update after a step that is no call of _update
NoUpdate == [end |-> "none", popped |-> 0, started |-> FALSE]

\* ------------------------------------------------------------ the deques
\* deque.appendleft
AppendLeft(q, x) == <<x>> \o q
\* deque.pop: the element it returns, and what is left
PopItem(q) == q[Len(q)]
PopRestLeft(q) == Tail(q)

PopRest(q) == SubSeq(q, 1, Len(q) - 1)

\* ------------------------------------------------------- the thread pool
\* a worker thread: where it is in _Worker.run and _load, the task it holds,
\* the exception that left its task, and the temp file and descriptors its
\* _load_urllib call has left behind
InitWorker == [pc |-> "loop", task |-> NoTask, exc |-> "none", tmp |-> NoTmp]

\* _ThreadPool.__init__: the pool and its num_threads workers
NewPool(num_threads) ==
    [running |-> TRUE, tasks |-> <<>>, unfinished |-> 0,
     num_threads |-> num_threads, workers |-> (InitWorker :> num_threads)]

\* the pools after worker w of pool p has become w2
WithWorker(p, w, w2) ==
    [pools EXCEPT ![p].workers = (@ (-) SetToBag({w})) (+) SetToBag({w2})]

WorkersAt(p, pc) == {w \in BagToSet(pools[p].workers) : w.pc = pc}

\* ------------------------------------------------------------ the setters
SetNumWorkersResultBelowOne(num) ==
    IF IntOf(num) < 1
    THEN [raised |-> "Exception: Must have at least 2 workers", value |-> num_workers]
    ELSE [raised |-> "none", value |-> IntOf(num)]

\* LoaderBase._set_num_workers: the exception it raises ("none" when it
\* returns) and the value of _num_workers it leaves
SetNumWorkersResult(num) ==
    IF IntOf(num) < 2
    THEN [raised |-> "Exception: Must have at least 2 workers", value |-> num_workers]
    ELSE [raised |-> "none", value |-> IntOf(num)]

\* the assignment Loader.num_workers = num
SetNumWorkers(num) ==
    /\ last_update' = NoUpdate
    /\ main = "idle"
    /\ num_workers' = SetNumWorkersResult(num).value
    /\ UNCHANGED << max_upload, paused, running, start_wanted, q_load, q_done, client,
                    proxies, cache, armed, run_scheduled, pools, main >>

\* LoaderBase._set_max_upload_per_frame: the exception it raises and the
\* value of _max_upload_per_frame it leaves
SetMaxUploadPerFrameResult(num) ==
    IF ~IsNone(num) /\ IntOf(num) < 1
    THEN [raised |-> "Exception: Must have at least 1 image processing per image",
          value |-> max_upload]
    ELSE [raised |-> "none", value |-> num]

\* the assignment Loader.max_upload_per_frame = num
SetMaxUploadPerFrame(num) ==
    /\ last_update' = NoUpdate
    /\ main = "idle"
    /\ max_upload' = SetMaxUploadPerFrameResult(num).value
    /\ UNCHANGED << num_workers, paused, running, start_wanted, q_load, q_done, client,
                    proxies, cache, armed, run_scheduled, pools, main >>

\* ---------------------------------------------------------- the lifecycle
\* LoaderBase.pause
Pause ==
    /\ last_update' = NoUpdate
    /\ main = "idle"
    /\ paused' = TRUE
    /\ UNCHANGED << num_workers, max_upload, running, start_wanted, q_load, q_done, client,
                    proxies, cache, armed, run_scheduled, pools, main >>

\* _resume_cond.notify_all(): the threads that are waiting on the
\* condition at that moment return from wait and test the flags again
Notified(w) == IF w.pc = "cond_wait" THEN [w EXCEPT !.pc = "wait_for_resume"] ELSE w

NotifyAll(workers) ==
    LET after == {Notified(w) : w \in BagToSet(workers)}
    IN  [x \in after |->
            BagCardinality([w \in {v \in BagToSet(workers) : Notified(v) = x} |-> workers[w]])]

\* LoaderBase.resume
Resume ==
    /\ last_update' = NoUpdate
    /\ main = "idle"
    /\ paused' = FALSE
    /\ pools' = [p \in 1..Len(pools) |-> [pools[p] EXCEPT !.workers = NotifyAll(@)]]
    /\ UNCHANGED << num_workers, max_upload, running, start_wanted, q_load, q_done, client,
                    proxies, cache, armed, run_scheduled, main >>

\* LoaderThreadPool.start, as a predicate on the variables it writes
DoStart ==
    /\ running' = TRUE
    /\ pools' = Append(pools, NewPool(num_workers))
    /\ run_scheduled' = TRUE

\* LoaderThreadPool.start called by the application
Start ==
    /\ last_update' = NoUpdate
    /\ main = "idle"
    /\ Len(pools) < MaxPools
    /\ DoStart
    /\ UNCHANGED << num_workers, max_upload, paused, start_wanted, q_load, q_done, client,
                    proxies, cache, armed, main >>

\* LoaderThreadPool.stop up to Queue.join(): with no pool yet, self.pool is
\* None and self.pool.stop() raises
Stop ==
    /\ last_update' = NoUpdate
    /\ main = "idle"
    /\ running' = FALSE
    /\ run_scheduled' = FALSE
    /\ IF pools = <<>>
       THEN UNCHANGED << pools, main >>
       ELSE /\ pools' = [pools EXCEPT ![Len(pools)].running = FALSE]
            /\ main' = "join"
    /\ UNCHANGED << num_workers, max_upload, paused, start_wanted, q_load, q_done, client,
                    proxies, cache, armed >>

\* Queue.join() returns: every task put on the pool's queue is done
StopReturn ==
    /\ last_update' = NoUpdate
    /\ main = "join"
    /\ pools[Len(pools)].unfinished = 0
    /\ main' = "idle"
    /\ UNCHANGED << num_workers, max_upload, paused, running, start_wanted, q_load, q_done,
                    client, proxies, cache, armed, run_scheduled, pools >>

\* LoaderThreadPool.run, the Clock callback: hands every queued request to
\* the pool while the loader runs
Run ==
    /\ last_update' = NoUpdate
    /\ main = "idle"
    /\ run_scheduled
    /\ IF running /\ q_load # <<>>
       THEN /\ q_load' = <<>>
            /\ pools' = [pools EXCEPT
                   ![Len(pools)].tasks =
                       @ \o [i \in 1..Len(q_load) |-> q_load[Len(q_load) + 1 - i]],
                   ![Len(pools)].unfinished = @ + Len(q_load)]
       ELSE UNCHANGED << q_load, pools >>
    /\ UNCHANGED << num_workers, max_upload, paused, running, start_wanted, q_done, client,
                    proxies, cache, armed, run_scheduled, main >>

\* ------------------------------------------------------------ image()
\* Cache.get('kv.loader', key) and Cache.append('kv.loader', key, obj): the
\* category is a map from keys to objects in which a key that was never
\* appended reads as None and an entry, once written, stays until it is
\* overwritten
CacheGet(c, filename) == c[filename]

CacheAppend(c, filename, obj) == [c EXCEPT ![filename] = obj]

FoundInCacheNever(data) == FALSE

FoundInCacheOnlyError(data) == data = ErrorImage

\* image(): if data not in (None, False)
FoundInCache(data) == data \notin {NoneData, FalseData}

IsFirstTimeAlways(data) == TRUE

\* image(): if data is None
IsFirstTime(data) == data = NoneData

\* LoaderBase.image
ImageCall(req) ==
    LET data == CacheGet(cache, req.filename)
        id == Len(proxies) + 1
    IN  /\ main = "idle"
        /\ last_update' = NoUpdate
        /\ IF FoundInCache(data)
           THEN \* found in the cache: a loaded ProxyImage, nothing else
                /\ proxies' = Append(proxies, [image |-> data, loaded |-> TRUE, on_load |-> 0])
                /\ UNCHANGED << client, q_load, cache, start_wanted, armed >>
           ELSE /\ proxies' = Append(proxies, [image |-> LoadingImage, loaded |-> FALSE,
                                               on_load |-> 0])
                /\ client' = Append(client, <<req.filename, id>>)
                /\ IF IsFirstTime(data)
                   THEN \* really the first time
                        /\ q_load' = AppendLeft(q_load, req)
                        /\ cache' = IF ~req.nocache
                                    THEN CacheAppend(cache, req.filename, FalseData)
                                    ELSE cache
                        /\ start_wanted' = TRUE
                        /\ armed' = TRUE
                   ELSE \* already queued for loading
                        UNCHANGED << q_load, cache, start_wanted, armed >>
        /\ UNCHANGED << num_workers, max_upload, paused, running, q_done, run_scheduled,
                        pools, main >>

\* a call of image(), of which the application makes at most MaxCalls
Image(req) == Len(proxies) < MaxCalls /\ ImageCall(req)

\* ------------------------------------------------------------ _update()
\* the client loop of _update for one completion: every registered client
\* of filename gets the image, is marked loaded, has on_load dispatched and
\* is removed from the list
UpdatedProxiesNone(px, cl, filename, image) == px

UpdatedProxies(px, cl, filename, image) ==
    [i \in 1..Len(px) |->
        IF \E j \in 1..Len(cl) : cl[j] = <<filename, i>>
        THEN [image |-> image, loaded |-> TRUE, on_load |-> px[i].on_load + 1]
        ELSE px[i]]

RemainingClients(cl, filename) == SelectSeq(cl, LAMBDA c : c[1] # filename)

\* the for loop of _update with n iterations left, on the state
\* st = [q_done, cache, client, proxies]; end says how the loop ended:
\* "quota" (range exhausted), "empty" (IndexError, return) or
\* "AttributeError" (image.nocache on a completion whose data is None)
RECURSIVE Drain(_, _)
Drain(n, st) ==
    IF n = 0 THEN [st EXCEPT !.end = "quota"]
    ELSE IF st.q_done = <<>> THEN [st EXCEPT !.end = "empty"]
    ELSE LET entry == PopItem(st.q_done)
             image == entry.data
         IN  IF image = NoneData
             THEN [st EXCEPT !.q_done = PopRest(st.q_done), !.end = "AttributeError"]
             ELSE Drain(n - 1,
                    [q_done |-> PopRest(st.q_done),
                     cache |-> IF ~image.nocache
                               THEN CacheAppend(st.cache, entry.filename, image)
                               ELSE st.cache,
                     proxies |-> UpdatedProxies(st.proxies, st.client, entry.filename, image),
                     client |-> RemainingClients(st.client, entry.filename),
                     end |-> st.end])

UploadRangeOneMore == IntOf(max_upload) + 1

\* _update: the length of range(self.max_upload_per_frame)
UploadRange == IntOf(max_upload)

\* the for loop of _update as the current state makes it run
Drained ==
    Drain(UploadRange, [q_done |-> q_done, cache |-> cache, client |-> client,
                              proxies |-> proxies, end |-> "quota"])

UpdateEndLoopOnly ==
    IF IsNone(max_upload) THEN "TypeError"
    ELSE Drained.end

\* how a call of _update ends in the current state: "paused" (re-armed,
\* return), "TypeError" (range(None)), or as the for loop ends
UpdateEnd ==
    IF paused THEN "paused"
    ELSE IF IsNone(max_upload) THEN "TypeError"
    ELSE Drained.end

StartCalledWhenWanted == start_wanted

\* _update: if self._start_wanted: if not self._running: self.start()
StartCalled == start_wanted /\ ~running

\* LoaderBase._update, called by the Clock when the trigger is due; the
\* Clock clears the trigger before it calls.  last_update records how the
\* call ended, how many completions it popped and whether it called start().
Update ==
    /\ main = "idle"
    /\ armed
    /\ (start_wanted /\ ~running) => Len(pools) < MaxPools
    /\ start_wanted' = FALSE
    /\ IF StartCalled
       THEN DoStart
       ELSE UNCHANGED << running, pools, run_scheduled >>
    /\ IF UpdateEnd \in {"paused", "TypeError"}
       THEN UNCHANGED << q_done, cache, client, proxies >>
       ELSE /\ q_done' = Drained.q_done
            /\ cache' = Drained.cache
            /\ client' = Drained.client
            /\ proxies' = Drained.proxies
    /\ armed' = (UpdateEnd \in {"paused", "quota"})
    /\ last_update' = [end |-> UpdateEnd, popped |-> Len(q_done) - Len(q_done'),
                       started |-> StartCalled]
    /\ UNCHANGED << num_workers, max_upload, paused, q_load, main >>

\* ------------------------------------------------------------ the workers
\* _Worker.run: the first test of self.pool.running of a new thread
WorkerLoop(p) ==
    \E w \in WorkersAt(p, "loop") :
        /\ last_update' = NoUpdate
        /\ pools' = WithWorker(p, w, [w EXCEPT !.pc = IF pools[p].running THEN "get"
                                                      ELSE "exit"])
        /\ UNCHANGED << num_workers, max_upload, paused, running, start_wanted, q_load,
                        q_done, client, proxies, cache, armed, run_scheduled, main >>

\* _Worker.run: self.tasks.get(), which blocks while the queue is empty
WorkerGet(p) ==
    \E w \in WorkersAt(p, "get") :
        /\ last_update' = NoUpdate
        /\ pools[p].tasks # <<>>
        /\ pools' = [WithWorker(p, w, [w EXCEPT !.pc = "backpressure",
                                                !.task = Head(pools[p].tasks)])
                        EXCEPT ![p].tasks = Tail(pools[p].tasks)]
        /\ UNCHANGED << num_workers, max_upload, paused, running, start_wanted, q_load,
                        q_done, client, proxies, cache, armed, run_scheduled, main >>

ThresholdOneMore == IntOf(max_upload) * num_workers + 1

\* the length of _q_done at which _load holds back
Threshold == IntOf(max_upload) * num_workers

\* _load: while len(self._q_done) >= max_upload_per_frame * _num_workers:
\* sleep.  None * int raises TypeError, which _Worker.run prints.
WorkerBackpressure(p) ==
    \E w \in WorkersAt(p, "backpressure") :
        /\ last_update' = NoUpdate
        /\ IF IsNone(max_upload) THEN TRUE ELSE Len(q_done) < Threshold
        /\ pools' = WithWorker(p, w,
                        IF IsNone(max_upload)
                        THEN [w EXCEPT !.pc = "task_done", !.exc = "TypeError: None * int"]
                        ELSE [w EXCEPT !.pc = "wait_for_resume"])
        /\ UNCHANGED << num_workers, max_upload, paused, running, start_wanted, q_load,
                        q_done, client, proxies, cache, armed, run_scheduled, main >>

\* _wait_for_resume: the test of while self._running and self._paused
WorkerWaitForResume(p) ==
    \E w \in WorkersAt(p, "wait_for_resume") :
        /\ last_update' = NoUpdate
        /\ pools' = WithWorker(p, w, [w EXCEPT !.pc = IF running /\ paused
                                                      THEN "cond_acquire" ELSE "load"])
        /\ UNCHANGED << num_workers, max_upload, paused, running, start_wanted, q_load,
                        q_done, client, proxies, cache, armed, run_scheduled, main >>

\* _wait_for_resume: self._resume_cond.acquire() and the start of wait(0.25)
WorkerCondWait(p) ==
    \E w \in WorkersAt(p, "cond_acquire") :
        /\ last_update' = NoUpdate
        /\ pools' = WithWorker(p, w, [w EXCEPT !.pc = "cond_wait"])
        /\ UNCHANGED << num_workers, max_upload, paused, running, start_wanted, q_load,
                        q_done, client, proxies, cache, armed, run_scheduled, main >>

WaitNeverTimesOut == FALSE

\* self._resume_cond.wait(0.25) returns without a notify after 0.25 s
WaitTimesOut == TRUE

\* _wait_for_resume: wait(0.25) times out, release(), back to the test
WorkerCondTimeout(p) ==
    \E w \in WorkersAt(p, "cond_wait") :
        /\ last_update' = NoUpdate
        /\ WaitTimesOut
        /\ pools' = WithWorker(p, w, [w EXCEPT !.pc = "wait_for_resume"])
        /\ UNCHANGED << num_workers, max_upload, paused, running, start_wanted, q_load,
                        q_done, client, proxies, cache, armed, run_scheduled, main >>

\* _load from the dispatch on load_callback and proto to
\* self._q_done.appendleft((filename, data)); the load itself touches no
\* shared state, so it is one step with the append that ends it
WorkerLoad(p) ==
    \E w \in WorkersAt(p, "load") : \E env \in EnvsFor(w.task) :
        LET r == LoadData(w.task, env)
        IN  /\ last_update' = NoUpdate
            /\ pools' = WithWorker(p, w,
                            IF r.ret = "data"
                            THEN [w EXCEPT !.pc = "trigger", !.tmp = r.tmp]
                            ELSE [w EXCEPT !.pc = "task_done", !.exc = r.exc,
                                           !.tmp = r.tmp])
            /\ q_done' = IF r.ret = "data"
                         THEN AppendLeft(q_done, [filename |-> w.task.filename,
                                                  data |-> r.data])
                         ELSE q_done
            /\ UNCHANGED << num_workers, max_upload, paused, running, start_wanted, q_load,
                            client, proxies, cache, armed, run_scheduled, main >>

\* _load: self._trigger_update()
WorkerTrigger(p) ==
    \E w \in WorkersAt(p, "trigger") :
        /\ last_update' = NoUpdate
        /\ armed' = TRUE
        /\ pools' = WithWorker(p, w, [w EXCEPT !.pc = "task_done"])
        /\ UNCHANGED << num_workers, max_upload, paused, running, start_wanted, q_load,
                        q_done, client, proxies, cache, run_scheduled, main >>

\* _Worker.run: print(e) if the task raised, self.tasks.task_done(), and
\* the next test of self.pool.running
WorkerTaskDone(p) ==
    \E w \in WorkersAt(p, "task_done") :
        /\ last_update' = NoUpdate
        /\ pools' = [WithWorker(p, w, [InitWorker EXCEPT
                                          !.pc = IF pools[p].running THEN "get" ELSE "exit"])
                        EXCEPT ![p].unfinished = @ - 1]
        /\ UNCHANGED << num_workers, max_upload, paused, running, start_wanted, q_load,
                        q_done, client, proxies, cache, armed, run_scheduled, main >>

\* ------------------------------------------------------- the specification
\* LoaderBase.__init__ and LoaderThreadPool.__init__
Init ==
    /\ num_workers = 2
    /\ max_upload = PyInt(2)
    /\ paused = FALSE
    /\ running = FALSE
    /\ start_wanted = FALSE
    /\ q_load = <<>>
    /\ q_done = <<>>
    /\ client = <<>>
    /\ proxies = <<>>
    /\ cache = [f \in Filenames |-> NoneData]
    /\ armed = FALSE
    /\ run_scheduled = FALSE
    /\ pools = <<>>
    /\ main = "idle"
    /\ last_update = NoUpdate

Next ==
    \/ \E num \in NumWorkersInputs : SetNumWorkers(num)
    \/ \E num \in MaxUploadInputs : SetMaxUploadPerFrame(num)
    \/ Pause
    \/ Resume
    \/ Start
    \/ Stop
    \/ StopReturn
    \/ Run
    \/ \E req \in Requests : Image(req)
    \/ Update
    \/ \E p \in 1..Len(pools) : WorkerLoop(p)
    \/ \E p \in 1..Len(pools) : WorkerGet(p)
    \/ \E p \in 1..Len(pools) : WorkerBackpressure(p)
    \/ \E p \in 1..Len(pools) : WorkerWaitForResume(p)
    \/ \E p \in 1..Len(pools) : WorkerCondWait(p)
    \/ \E p \in 1..Len(pools) : WorkerCondTimeout(p)
    \/ \E p \in 1..Len(pools) : WorkerLoad(p)
    \/ \E p \in 1..Len(pools) : WorkerTrigger(p)
    \/ \E p \in 1..Len(pools) : WorkerTaskDone(p)

Spec == Init /\ [][Next]_vars

\* -------------------------------------------------------------- counting
\* the load requests for filename with the given nocache that image() has
\* enqueued and no worker has finished loading yet: in _q_load, in the
\* pool's task queue, or held by a worker on its way to the load
IsRequestFor(t, filename, nocache) == t.filename = filename /\ t.nocache = nocache

CountSeq(q, filename, nocache) ==
    Cardinality({i \in 1..Len(q) : IsRequestFor(q[i], filename, nocache)})

CountWorkers(p, filename, nocache) ==
    LET ws == {w \in BagToSet(pools[p].workers) :
                  /\ w.pc \in {"backpressure", "wait_for_resume", "cond_acquire", "cond_wait", "load"}
                  /\ IsRequestFor(w.task, filename, nocache)}
    IN  BagCardinality([w \in ws |-> CopiesIn(w, pools[p].workers)])

RECURSIVE CountPools(_, _, _)
CountPools(p, filename, nocache) ==
    IF p = 0 THEN 0
    ELSE CountSeq(pools[p].tasks, filename, nocache)
         + CountWorkers(p, filename, nocache) + CountPools(p - 1, filename, nocache)

InFlight(filename, nocache) ==
    CountSeq(q_load, filename, nocache) + CountPools(Len(pools), filename, nocache)

ClientsOf(filename) == {i \in 1..Len(client) : client[i][1] = filename}

C2_PerTickQuota ==
    [][(Update /\ ~IsNone(max_upload)) =>
           /\ Len(q_done) - Len(q_done') <= IntOf(max_upload)
           /\ Len(q_done') <= Len(q_done)
           /\ q_done' = SubSeq(q_done, 1, Len(q_done'))]_vars

\* a call of _update has used its whole quota and left completions queued
C2_Witness ==
    /\ last_update.end = "quota"
    /\ last_update.popped = IntOf(max_upload)
    /\ q_done # <<>>

\* C3: no completion is dropped.  There is no state in which completions
\* wait in _q_done, the loader is not paused, no call of _update is armed
\* and no worker is about to arm one: every completion a worker has pushed
\* has a dispatcher tick ahead of it that will pop it.
AboutToArm == \E p \in 1..Len(pools) : WorkersAt(p, "trigger") # {}

C3_NoCompletionStranded == ~(q_done # <<>> /\ ~paused /\ ~armed /\ ~AboutToArm)

\* C4: pause.  A call of _update made while the loader is paused pops
\* nothing and updates no handle and no cache slot, and leaves a further
\* call armed; a call made while it is not paused, with completions queued,
\* pops at least one of them, so draining resumes with the first tick after
\* resume().
C4_PauseStopsAndResumeRestartsDraining ==
    [][Update =>
          /\ paused => (UNCHANGED << q_done, client, proxies, cache >> /\ armed')
          /\ (~paused /\ q_done # <<>>) => Len(q_done') < Len(q_done)]_vars

Popped == [j \in 1..(Len(q_done) - Len(q_done')) |-> q_done[Len(q_done) + 1 - j]]

C6_ExactlyOnceHandleUpdate ==
    /\ [](\A i \in 1..Len(proxies) :
            /\ proxies[i].on_load <= 1
            /\ (\E j \in 1..Len(client) : client[j][2] = i) <=> ~proxies[i].loaded)
    /\ [][\A i \in 1..Len(proxies) :
            /\ proxies[i].loaded => proxies'[i] = proxies[i]
            /\ \A j \in 1..Len(client) : \A n \in 1..Len(Popped) :
                  (client[j][2] = i /\ Popped[n].filename = client[j][1]) =>
                      /\ proxies'[i].loaded
                      /\ proxies'[i].on_load = 1
                      /\ \E m \in 1..n : /\ Popped[m].filename = client[j][1]
                                         /\ proxies'[i].image = Popped[m].data
                      /\ \A m \in 1..Len(client') : client'[m][2] # i]_vars

\* C7: every failed load ends as the error image on _q_done.  No worker ends
\* a task with the exception of a failed fetch, a failed decode of the
\* downloaded or of a local file, or a failed load_callback: the failure has
\* been turned into a completion.
LoadFailures == {"OSError: EBADF", "TypeError: close(None)", "Exception: decode",
                 "Exception: load_callback"}

C7_FailuresBecomeErrorImage ==
    \A p \in 1..Len(pools) : \A w \in WorkersAt(p, "task_done") : w.exc \notin LoadFailures

\* C8: the temp file of _load_urllib.  Once mkstemp has created it, at the
\* end of the call the file is gone, its descriptor is closed, and close was
\* called on it exactly once.
C8_TempFileCleanedUp ==
    \A p \in 1..Len(pools) : \A w \in BagToSet(pools[p].workers) :
        w.tmp.created => /\ ~w.tmp.exists
                         /\ ~w.tmp.osfd_open
                         /\ w.tmp.close_calls = 1

\* C9: configuration validation.  Assigning num_workers a value below 2
\* raises and leaves _num_workers as it was, a value of 2 or more is stored;
\* assigning max_upload_per_frame an integer below 1 raises and leaves the
\* stored value as it was, a value of 1 or more is stored.
SetterInputs == {PyInt(n) : n \in -1..(MaxWorkers + 1)}

C9_ConfigurationValidation ==
    /\ [](\A num \in SetterInputs :
            LET w == SetNumWorkersResult(num)
                u == SetMaxUploadPerFrameResult(num)
            IN  /\ IntOf(num) < 2 => (w.raised # "none" /\ w.value = num_workers)
                /\ IntOf(num) >= 2 => (w.raised = "none" /\ w.value = IntOf(num))
                /\ IntOf(num) < 1 => (u.raised # "none" /\ u.value = max_upload)
                /\ IntOf(num) >= 1 => (u.raised = "none" /\ u.value = num))
    /\ [][/\ \A num \in NumWorkersInputs : SetNumWorkers(num) =>
                num_workers' = IF IntOf(num) < 2 THEN num_workers ELSE IntOf(num)
          /\ \A num \in MaxUploadInputs \ {PyNone} : SetMaxUploadPerFrame(num) =>
                max_upload' = IF IntOf(num) < 1 THEN max_upload ELSE num]_vars

\* max_upload_per_frame has been assigned 1 and holds it
C9_Witness == max_upload = PyInt(1) /\ num_workers = 2

\* C10: once the loader is started, num_workers has no impact.  While the
\* loader runs and max_upload_per_frame stays what it is, the length of
\* _q_done at which workers hold back does not change, and neither does the
\* number of threads of a pool.
C10_NumWorkersFixedAfterStart ==
    [][(running /\ running' /\ ~IsNone(max_upload) /\ max_upload' = max_upload) =>
           /\ IntOf(max_upload') * num_workers' = IntOf(max_upload) * num_workers
           /\ \A p \in 1..Len(pools) : pools'[p].num_threads = pools[p].num_threads]_vars

\* the specification C10 is checked under: the pipeline with num_workers
\* assigned 2 or 3 by the application
ResizeInputs == {PyInt(2), PyInt(3)}

NextResize ==
    \/ \E num \in ResizeInputs : SetNumWorkers(num)
    \/ Run
    \/ \E req \in Requests : Image(req)
    \/ Update
    \/ \E p \in 1..Len(pools) : WorkerLoop(p)
    \/ \E p \in 1..Len(pools) : WorkerGet(p)
    \/ \E p \in 1..Len(pools) : WorkerBackpressure(p)
    \/ \E p \in 1..Len(pools) : WorkerWaitForResume(p)
    \/ \E p \in 1..Len(pools) : WorkerLoad(p)
    \/ \E p \in 1..Len(pools) : WorkerTrigger(p)
    \/ \E p \in 1..Len(pools) : WorkerTaskDone(p)

SpecResize == Init /\ [][NextResize]_vars

\* the handles registered for the key of the completion at distance d from
\* the end of _q_done that _update pops from (d = 1 is popped first)
MinOf(a, b) == IF a < b THEN a ELSE b

WaitingAt(d) ==
    {client[j][2] : j \in {k \in 1..Len(client) :
                              client[k][1] = q_done[Len(q_done) + 1 - d].filename}}

C12_CacheHitLeavesPipelineUntouched ==
    [][\A req \in Requests :
          (Image(req) /\ cache[req.filename] \notin {NoneData, FalseData}) =>
              /\ proxies' = Append(proxies, [image |-> cache[req.filename],
                                             loaded |-> TRUE, on_load |-> 0])
              /\ UNCHANGED << q_load, client, cache, start_wanted, armed, q_done,
                              pools, running, run_scheduled >>]_vars

\* image() has just returned a loaded handle for a key in the cache, next to
\* the handle of the request that put it there
C12_Witness ==
    /\ Len(proxies) = 2
    /\ last_update = NoUpdate
    /\ proxies[1].loaded /\ proxies[1].on_load = 1
    /\ proxies[2].loaded /\ proxies[2].on_load = 0
    /\ proxies[2].image = cache[proxies[1].image.source]
    /\ proxies[2].image.kind = "image"
    /\ client = <<>> /\ q_load = <<>>

\* C13: a request made with nocache never causes a cache write for its key.
\* image() called with nocache leaves the cache as it is; and a key whose
\* cache entry is empty has only nocache requests under way (any other
\* request would have left the marker), so no call of _update publishes a
\* resource into an empty entry.
C13_NocacheNeverWritesCache ==
    [][/\ \A req \in Requests : (Image(req) /\ req.nocache) => cache' = cache
       /\ Update => \A f \in Filenames : cache[f] = NoneData => cache'[f] = NoneData]_vars

C15_DeferredStart ==
    [][/\ \A req \in Requests : (Image(req) /\ cache[req.filename] = NoneData) =>
             (start_wanted' /\ armed')
       /\ Update =>
             /\ ~start_wanted'
             /\ start_wanted => running'
             /\ IF start_wanted /\ ~running
                THEN pools' = Append(pools, NewPool(num_workers))
                ELSE pools' = pools /\ running' = running]_vars

\* a call of _update found _start_wanted set on a running loader and left
\* its one pool alone; the request that set the flag is still on _q_load
C15_Witness ==
    /\ last_update.end # "none"
    /\ ~last_update.started
    /\ running /\ Len(pools) = 1 /\ pools[1].running
    /\ ~start_wanted
    /\ Len(proxies) = 2 /\ Len(q_load) = 1
    /\ proxies[1].loaded

\* C16: both queues are first in, first out.  _q_load only changes by
\* image() adding a request at the left end or by run() moving all of it,
\* oldest first, to the end of the pool's task queue, from whose head the
\* workers take; _q_done only changes by a worker adding one completion at
\* the left end or by _update removing entries from the right end, so what
\* stays keeps its order and the oldest completion is the first popped.
Reversed(q) == [i \in 1..Len(q) |-> q[Len(q) + 1 - i]]

C16_QueuesAreFifo ==
    [][/\ \/ q_load' = q_load
          \/ \E req \in Requests : q_load' = <<req>> \o q_load
          \/ /\ q_load' = <<>>
             /\ pools'[Len(pools)].tasks = pools[Len(pools)].tasks \o Reversed(q_load)
       /\ \/ q_done' = q_done
          \/ /\ Len(q_done') = Len(q_done) + 1
             /\ Tail(q_done') = q_done
             /\ \E p \in 1..Len(pools) : \E w \in WorkersAt(p, "load") :
                   Head(q_done').filename = w.task.filename
          \/ /\ Update
             /\ \E k \in 0..(Len(q_done) - 1) : q_done' = SubSeq(q_done, 1, k)
       /\ \A p \in 1..Len(pools) :
             \/ /\ Len(pools'[p].tasks) >= Len(pools[p].tasks)
                /\ SubSeq(pools'[p].tasks, 1, Len(pools[p].tasks)) = pools[p].tasks
             \/ /\ pools'[p].tasks = Tail(pools[p].tasks)
                /\ \E w \in BagToSet(pools'[p].workers) :
                      w.pc = "backpressure" /\ w.task = Head(pools[p].tasks)]_vars

\* two completions for different keys were queued; a call of _update with a
\* quota of one has delivered one and left the other
C16_Witness ==
    /\ last_update.end = "quota" /\ last_update.popped = 1
    /\ Len(q_done) = 1 /\ Len(proxies) = 2
    /\ \E i \in 1..2 : /\ proxies[i].loaded
                       /\ proxies[i].image.kind = "image"
                       /\ proxies[i].image.source # q_done[1].filename

\* the workers of pool p of the pools ps that are at pc, with multiplicity
NumAt(ps, p, pc) ==
    BagCardinality([w \in {v \in BagToSet(ps[p].workers) : v.pc = pc} |-> ps[p].workers[w]])

\* some worker has seen the loader running and paused and is in, or about to
\* enter, the wait on _resume_cond
Blocked ==
    \E p \in 1..Len(pools) : \E w \in BagToSet(pools[p].workers) :
        w.pc \in {"cond_acquire", "cond_wait"}

\* the pipeline with pause(), resume() and stop(), its worker threads
\* scheduled fairly
NextGate ==
    \/ Pause
    \/ Resume
    \/ Stop
    \/ StopReturn
    \/ Run
    \/ \E req \in Requests : Image(req)
    \/ Update
    \/ \E p \in 1..Len(pools) : WorkerLoop(p)
    \/ \E p \in 1..Len(pools) : WorkerGet(p)
    \/ \E p \in 1..Len(pools) : WorkerBackpressure(p)
    \/ \E p \in 1..Len(pools) : WorkerWaitForResume(p)
    \/ \E p \in 1..Len(pools) : WorkerCondWait(p)
    \/ \E p \in 1..Len(pools) : WorkerCondTimeout(p)
    \/ \E p \in 1..Len(pools) : WorkerLoad(p)
    \/ \E p \in 1..Len(pools) : WorkerTrigger(p)
    \/ \E p \in 1..Len(pools) : WorkerTaskDone(p)

SpecGate ==
    /\ Init
    /\ [][NextGate]_vars
    /\ WF_vars(\E p \in 1..Len(pools) : WorkerWaitForResume(p))
    /\ WF_vars(\E p \in 1..Len(pools) : WorkerCondWait(p))
    /\ WF_vars(\E p \in 1..Len(pools) : WorkerCondTimeout(p))

\* C17: the pause gate.  A worker goes on to the load only from a state in
\* which the loader is not both running and paused; and whenever workers
\* are held at the gate and the loader is no longer running and paused
\* (resume() or stop() was called, whether or not the notify reached them),
\* they all leave the gate, unless the loader is paused again first.
C17_PauseGate ==
    /\ [][\A p \in 1..Len(pools) :
             NumAt(pools', p, "load") > NumAt(pools, p, "load") => ~(running /\ paused)]_vars
    /\ (Blocked /\ ~(running /\ paused)) ~> (~Blocked \/ (running /\ paused))

\* resume() was called between a worker's test of the flags and its wait:
\* the worker waits on the condition with the loader running and not paused
C17_Witness ==
    /\ running /\ ~paused
    /\ \E p \in 1..Len(pools) : NumAt(pools, p, "cond_wait") >= 1

\* the pipeline with stop(), every worker thread scheduled fairly and
\* Queue.join() returning once it can
NextStop ==
    \/ Stop
    \/ StopReturn
    \/ Run
    \/ \E req \in Requests : Image(req)
    \/ Update
    \/ \E p \in 1..Len(pools) : WorkerLoop(p)
    \/ \E p \in 1..Len(pools) : WorkerGet(p)
    \/ \E p \in 1..Len(pools) : WorkerBackpressure(p)
    \/ \E p \in 1..Len(pools) : WorkerWaitForResume(p)
    \/ \E p \in 1..Len(pools) : WorkerLoad(p)
    \/ \E p \in 1..Len(pools) : WorkerTrigger(p)
    \/ \E p \in 1..Len(pools) : WorkerTaskDone(p)

SpecStop ==
    /\ Init
    /\ [][NextStop]_vars
    /\ WF_vars(StopReturn)
    /\ WF_vars(\E p \in 1..Len(pools) : WorkerLoop(p))
    /\ WF_vars(\E p \in 1..Len(pools) : WorkerGet(p))
    /\ WF_vars(\E p \in 1..Len(pools) : WorkerBackpressure(p))
    /\ WF_vars(\E p \in 1..Len(pools) : WorkerWaitForResume(p))
    /\ WF_vars(\E p \in 1..Len(pools) : WorkerLoad(p))
    /\ WF_vars(\E p \in 1..Len(pools) : WorkerTrigger(p))
    /\ WF_vars(\E p \in 1..Len(pools) : WorkerTaskDone(p))

\* C18: stop() terminates.  Whenever the dispatcher's thread is inside
\* stop(), waiting in Queue.join() for the pool's tasks, it eventually
\* returns.
C18_StopTerminates == (main = "join") ~> (main = "idle")

\* the pipeline under load: up to MaxBacklog requests that each reach the
\* pool, two workers, max_upload_per_frame set to 1 or left at 2 before the
\* loader starts, and a dispatcher that may or may not keep up
BacklogRequest ==
    [filename |-> LocalFile, load_callback |-> FALSE, post_callback |-> FALSE, nocache |-> TRUE]

NextBacklog ==
    \/ (~running /\ pools = <<>> /\ SetMaxUploadPerFrame(PyInt(1)))
    \/ (Len(proxies) < MaxBacklog /\ ImageCall(BacklogRequest))
    \/ Run
    \/ Update
    \/ \E p \in 1..Len(pools) : WorkerLoop(p)
    \/ \E p \in 1..Len(pools) : WorkerGet(p)
    \/ \E p \in 1..Len(pools) : WorkerBackpressure(p)
    \/ \E p \in 1..Len(pools) : WorkerWaitForResume(p)
    \/ \E p \in 1..Len(pools) : WorkerLoad(p)
    \/ \E p \in 1..Len(pools) : WorkerTrigger(p)
    \/ \E p \in 1..Len(pools) : WorkerTaskDone(p)

SpecBacklog == Init /\ [][NextBacklog]_vars

\* C19: the backpressure bound.  With one pool of N = num_workers workers
\* and a finite M = max_upload_per_frame, neither changed after start,
\* _q_done never holds more than M * N + (N - 1) completions.
C19_BackpressureBound ==
    Len(q_done) <= IntOf(max_upload) * num_workers + (num_workers - 1)

\* the bound is met: with M = 1 and two workers, three completions are
\* queued and a fourth request is held back
C19_Witness ==
    /\ max_upload = PyInt(1) /\ num_workers = 2
    /\ Len(q_done) = 3
    /\ \E p \in 1..Len(pools) : NumAt(pools, p, "backpressure") >= 1

\* C20: the unlimited quota works.  With max_upload_per_frame set to None,
\* no worker's task ends in the TypeError of the backpressure test, and a
\* call of _update that is not paused empties _q_done and leaves every
\* handle loaded that was waiting for a queued completion.
C20_UnlimitedQuotaWorks ==
    /\ [](\A p \in 1..Len(pools) : \A w \in BagToSet(pools[p].workers) :
            w.exc # "TypeError: None * int")
    /\ [][(Update /\ ~paused /\ IsNone(max_upload)) =>
             /\ q_done' = <<>>
             /\ \A d \in 1..Len(q_done) : \A i \in WaitingAt(d) : proxies'[i].loaded]_vars

====
